---- MODULE Spec2Model ----
(***************************************************************************)
(* Deckify: a Spotify listing is turned into card records (artist, title,  *)
(* release year, URL, QR code).  The model follows src/deckify.py: the     *)
(* run (main, create_data, the pagination loop, add_track_to_data) and the *)
(* release-year cascade Discogs -> MusicBrainz -> Spotify album.           *)
(*                                                                         *)
(* Text values.  A date or year string is modelled as the sequence of its  *)
(* hyphen-separated fields, a numeric field being its value: "1999-06-01"  *)
(* is <<1999, 6, 1>>, "2005" is <<2005>>.  Two non-numeric fields occur:   *)
(* the text "N/A" and a text no date format accepts.  A title is the       *)
(* sequence of its characters.                                             *)
(***************************************************************************)
EXTENDS Integers, Sequences, FiniteSets, TLC

VARIABLES
    pc,            \* position of main: "start", "tracks", "created", "done", "aborted"
    spotify_url,   \* the path parts of the URL typed by the user
    spotify_type,  \* "album", "playlist" or "None"
    results,       \* the current page of the listing: [items, next]
    idx,           \* number of items of the current page already handed to add_track_to_data
    pageNo,        \* number of pages fetched so far
    fetched,       \* number of items the listing source has delivered so far
    data,          \* the records collected so far, in the order they were appended
    cards,         \* the records that reached card rendering
    visited,       \* ids of the items handed to add_track_to_data, in order
    failed,        \* ids of the items for which a metadata source failed
    last,          \* what the last add_track_to_data did: item id, queries, outcome
    inp,           \* inputs of the function under study (function-level specifications)
    out            \* its outcome

vars == <<pc, spotify_url, spotify_type, results, idx, pageNo, fetched, data, cards,
          visited, failed, last, inp, out>>

(***************************************************************************)
(* Bounds of the model.                                                    *)
(***************************************************************************)
MaxTracks == 3       \* items a listing delivers in all
MaxPageLen == 2      \* items on one page
MaxCands == 3        \* candidates in one Discogs response
MaxReleases == 2     \* releases of the first MusicBrainz recording
MaxRecordings == 2   \* recordings in one MusicBrainz response
MaxTitleLen == 5     \* characters of a title given to clean_song_title alone

(***************************************************************************)
(* Text helpers.                                                           *)
(***************************************************************************)
NA == <<-1>>         \* the text "N/A"
JunkText == <<-2>>   \* a text that is not a date, e.g. "" or "unknown"

\* The text left whole: what is returned if the split is forgotten.
WholeText(text) == text

\* str.split('-')[0]: the text before the first hyphen.
SplitFirst(text) == <<Head(text)>>

\* A four-digit year string: one field, four digits.
IsYearText(text) == Len(text) = 1 /\ text[1] >= 0 /\ text[1] < 10000

SeqsUpTo(S, n) == UNION {[1..k -> S] : k \in 0..n}

\* Stable insertion sort of pairs <<key, value>> by an integer key, as
\* list.sort(key=...) sorts: x goes after every element whose key is not larger.
RECURSIVE InsertByKey(_, _)
InsertByKey(x, seq) ==
    IF seq = <<>> THEN <<x>>
    ELSE IF x[1] < Head(seq)[1] THEN <<x>> \o seq
    ELSE <<Head(seq)>> \o InsertByKey(x, Tail(seq))

RECURSIVE SortByKey(_)
SortByKey(seq) ==
    IF seq = <<>> THEN <<>>
    ELSE InsertByKey(seq[Len(seq)], SortByKey(SubSeq(seq, 1, Len(seq) - 1)))

(***************************************************************************)
(* try_parsing_date: '%Y-%m-%d', then '%Y-%m', then '%Y'.  The value is    *)
(* the datetime <<year, month, day>>, or None.                             *)
(***************************************************************************)
None == <<>>

ValidYear(y) == y >= 1 /\ y < 10000
ValidMonth(m) == m \in 1..12
IsLeap(y) == (y % 4 = 0 /\ y % 100 # 0) \/ y % 400 = 0
DaysIn(y, m) ==
    IF m = 2 THEN (IF IsLeap(y) THEN 29 ELSE 28)
    ELSE IF m \in {4, 6, 9, 11} THEN 30 ELSE 31

try_parsing_date(text) ==
    IF Len(text) = 3 /\ ValidYear(text[1]) /\ ValidMonth(text[2])
                     /\ text[3] \in 1..DaysIn(text[1], text[2])
        THEN text
    ELSE IF Len(text) = 2 /\ ValidYear(text[1]) /\ ValidMonth(text[2])
        THEN <<text[1], text[2], 1>>
    ELSE IF Len(text) = 1 /\ ValidYear(text[1])
        THEN <<text[1], 1, 1>>
    ELSE None

\* The position of a datetime on the time line: the key datetimes are compared by.
Ordinal(d) == (d[1] * 12 + (d[2] - 1)) * 31 + (d[3] - 1)

(***************************************************************************)
(* clean_song_title.                                                       *)
(***************************************************************************)
\* A line break: '.' does not match it, '\s' and strip() do.
NL == "\n"

IsSpace(c) == c \in {" ", NL}

\* Start of the whitespace run that ends just before position q.
RECURSIVE RunStart(_, _)
RunStart(s, q) == IF q > 1 /\ IsSpace(s[q - 1]) THEN RunStart(s, q - 1) ELSE q

\* End of the whitespace run that starts just after position r.
RECURSIVE RunEnd(_, _)
RunEnd(s, r) == IF r < Len(s) /\ IsSpace(s[r + 1]) THEN RunEnd(s, r + 1) ELSE r

Positions(s, c, from) == {i \in from..Len(s) : s[i] = c}
Min(S) == CHOOSE x \in S : \A y \in S : x <= y

\* The position where the lazy run '<open>.*?<close>' opened at q ends: the
\* first <close> after q on the same line, 0 if there is none.
RECURSIVE Closes(_, _, _)
Closes(s, i, close) ==
    IF i + 1 > Len(s) \/ s[i + 1] = NL THEN 0
    ELSE IF s[i + 1] = close THEN i + 1
    ELSE Closes(s, i + 1, close)

\* re.sub(r'\s*<open>.*?<close>\s*', '', s): the leftmost match is at the first
\* <open> that is closed on its line, with the whitespace around it; the
\* search goes on behind the match.
RECURSIVE RemoveEnclosed(_, _, _)
RemoveEnclosed(s, open, close) ==
    LET opens == {q \in Positions(s, open, 1) : Closes(s, q, close) # 0}
    IN  IF opens = {} THEN s
        ELSE LET q == Min(opens)
                 r == Closes(s, q, close)
             IN  SubSeq(s, 1, RunStart(s, q) - 1)
                   \o RemoveEnclosed(SubSeq(s, RunEnd(s, r) + 1, Len(s)), open, close)

\* Last position of the line that position q is on.
RECURSIVE LineEnd(_, _)
LineEnd(s, q) == IF q < Len(s) /\ s[q + 1] # NL THEN LineEnd(s, q + 1) ELSE q

\* re.sub(r'\s*-.*', '', s): from the whitespace before the first hyphen to
\* the end of its line; the search goes on with the next line.
RECURSIVE RemoveAfterHyphen(_)
RemoveAfterHyphen(s) ==
    IF Positions(s, "-", 1) = {} THEN s
    ELSE LET q == Min(Positions(s, "-", 1))
         IN  SubSeq(s, 1, RunStart(s, q) - 1)
               \o RemoveAfterHyphen(SubSeq(s, LineEnd(s, q) + 1, Len(s)))

RECURSIVE LStrip(_)
LStrip(s) == IF s # <<>> /\ IsSpace(Head(s)) THEN LStrip(Tail(s)) ELSE s

RECURSIVE RStrip(_)
RStrip(s) == IF s # <<>> /\ IsSpace(s[Len(s)]) THEN RStrip(SubSeq(s, 1, Len(s) - 1)) ELSE s

Strip(s) == RStrip(LStrip(s))

clean_song_title(title) ==
    Strip(RemoveAfterHyphen(
        RemoveEnclosed(RemoveEnclosed(RemoveEnclosed(title, "(", ")"), "[", "]"), "{", "}")))

(***************************************************************************)
(* Provider queries, as they go out on the wire.                           *)
(***************************************************************************)
Query(src, artist, title) == [src |-> src, artist |-> artist, title |-> title]

\* Outcome of a call: the exception that escaped it (or "none"), its return
\* value, and the provider queries it issued.
Returned(val, queries) == [exc |-> "none", val |-> val, queries |-> queries]
Raised(exc, queries) == [exc |-> exc, val |-> NA, queries |-> queries]

(***************************************************************************)
(* get_release_year_musicbrainz.  resp is what MusicBrainz answers:        *)
(*   kind "neterr"  requests.get or raise_for_status raised                *)
(*   kind "badbody" the body is no JSON or has no 'recordings'             *)
(*   kind "not200"  a status other than 200 that raise_for_status accepts  *)
(*   kind "ok"      a body with 'recordings'                               *)
(***************************************************************************)
ReleaseTuple(release) ==
    << release.title,
       IF try_parsing_date(release.date) # None THEN release.date ELSE NA,
       release.credit >>

\* The filter left out: compilations stay among the releases.
KeepVarious(seq) == seq

NotVarious(seq) == SelectSeq(seq, LAMBDA r : r[3] # "Various Artists")
Dated(seq) == SelectSeq(seq, LAMBDA r : r[2] # NA)

RECURSIVE MapReleases(_)
MapReleases(seq) ==
    IF seq = <<>> THEN <<>>
    ELSE (IF Head(seq).hasDate THEN <<ReleaseTuple(Head(seq))>> ELSE <<>>)
            \o MapReleases(Tail(seq))

RECURSIVE KeyedByDate(_)
KeyedByDate(seq) ==
    IF seq = <<>> THEN <<>>
    ELSE <<<<Ordinal(try_parsing_date(Head(seq)[2])), Head(seq)>>>> \o KeyedByDate(Tail(seq))

get_release_year_musicbrainz(artist_name, song_title, resp) ==
    LET q == <<Query("musicbrainz", artist_name, clean_song_title(song_title))>>
    IN  IF resp.kind # "ok" THEN Returned(NA, q)
        ELSE IF resp.recordings = <<>> THEN Returned(NA, q)
        ELSE IF ~resp.recordings[1].hasReleases THEN Raised("KeyError", q)
        ELSE LET releases == SortByKey(KeyedByDate(
                                 Dated(NotVarious(MapReleases(resp.recordings[1].releases)))))
             IN  IF releases # <<>> THEN Returned(releases[1][2][2], q)
                 ELSE Returned(NA, q)

(***************************************************************************)
(* extract_year_from_discogs_data.  mb and album are what MusicBrainz and  *)
(* spotify.album answer if they are asked.                                 *)
(***************************************************************************)
WithYear(seq) == SelectSeq(seq, LAMBDA r : r.hasYear)

RECURSIVE KeyedByYear(_)
KeyedByYear(seq) ==
    IF seq = <<>> THEN <<>>
    ELSE <<<<Head(seq).year[1], Head(seq)>>>> \o KeyedByYear(Tail(seq))

\* The candidates in the order Discogs gave them: the sort left out.
InGivenOrder(cands) == KeyedByYear(cands)

\* results_with_year.sort(key=lambda x: x['year']).  The years are four-digit
\* strings, which compare as their values do.
SortedByYear(cands) == SortByKey(KeyedByYear(cands))

\* item["album"]["id"] is looked up on the raw listing item.
ItemHasAlbum(item) == ~item.wrapped /\ item.track.hasAlbum

\* The last resort: the release year of the track's album on Spotify.
AlbumYear(item, album, queries) ==
    IF ~ItemHasAlbum(item) THEN Raised("KeyError", queries)
    ELSE LET q == queries \o <<Query("spotify_album", "", <<>>)>>
         IN  IF album.kind # "ok" THEN Raised("SpotifyException", q)
             ELSE IF album.hasDate THEN Returned(SplitFirst(album.release_date), q)
             ELSE Returned(NA, q)

extract_year_from_discogs_data(discogs_data, artist, title, item, mb, album) ==
    IF discogs_data.hasResults
    THEN LET results_with_year == SortedByYear(WithYear(discogs_data.results))
         IN  IF results_with_year # <<>>
             THEN Returned(results_with_year[1][2].year, <<>>)
             ELSE LET date == get_release_year_musicbrainz(artist, title, mb)
                  IN  IF date.exc # "none" THEN date
                      ELSE IF date.val # NA THEN Returned(SplitFirst(date.val), date.queries)
                      ELSE Returned(NA, date.queries)
    ELSE LET date == get_release_year_musicbrainz(artist, title, mb)
         IN  IF date.exc # "none" THEN date
             ELSE IF date.val # NA THEN Returned(SplitFirst(date.val), date.queries)
             ELSE AlbumYear(item, album, date.queries)

(***************************************************************************)
(* extract_spotify_id_and_type.  url is the list of path parts.            *)
(***************************************************************************)
TypeParts(url) == {i \in 1..Len(url) : url[i] \in {"album", "playlist"}}

extract_spotify_id_and_type(url) ==
    IF TypeParts(url) = {} THEN [exc |-> "none", id |-> "None", type |-> "None"]
    ELSE LET i == Min(TypeParts(url))
         IN  IF i + 1 > Len(url) THEN [exc |-> "IndexError", id |-> "None", type |-> "None"]
             ELSE [exc |-> "none", id |-> url[i + 1], type |-> url[i]]

(***************************************************************************)
(* extract_track_info.  A listing item is [wrapped, track]: a playlist     *)
(* item wraps its track under 'track', an album item is the track itself.  *)
(* track.ok says that 'id', 'name', 'external_urls' and 'artists' are      *)
(* there.  Any exception yields None (found = FALSE).                      *)
(***************************************************************************)
NoTrackInfo == [found |-> FALSE, id |-> 0, name |-> <<>>, artists |-> <<>>, url |-> 0]

extract_track_info(item, type) ==
    IF (type = "playlist") # item.wrapped THEN NoTrackInfo
    ELSE IF ~item.track.ok THEN NoTrackInfo
    ELSE [found |-> TRUE, id |-> item.track.id, name |-> item.track.name,
          artists |-> item.track.artists, url |-> item.track.url]

(***************************************************************************)
(* fetch_discogs_data.  resp is what Discogs answers:                      *)
(*   kind "neterr"  requests.get or raise_for_status raised                *)
(*   kind "badjson" the body is no JSON: response.json() raises            *)
(*   kind "ok"      the decoded body is resp.data                          *)
(* found = FALSE is the return value None.                                 *)
(***************************************************************************)
NoData == [hasResults |-> FALSE, results |-> <<>>]

fetch_discogs_data(artist, title, resp) ==
    LET q == <<Query("discogs", artist, title)>>
    IN  IF resp.kind = "neterr" THEN [exc |-> "none", found |-> FALSE, data |-> NoData, queries |-> q]
        ELSE IF resp.kind = "badjson"
            THEN [exc |-> "JSONDecodeError", found |-> FALSE, data |-> NoData, queries |-> q]
        ELSE [exc |-> "none", found |-> TRUE, data |-> resp.data, queries |-> q]

generate_qr_code(url) == [encodes |-> url]

\* The record put in front of the others instead of behind them.
PrependRecord(columns, records) == records \o columns

\* data["Artist"].append(artist) ... data["QR Code"].append(qr_img): the record
\* goes to the end of every column.
AppendRecord(columns, records) == columns \o records

(***************************************************************************)
(* add_track_to_data.  The outcome: the exception that escaped, the        *)
(* records appended to data (none or one), the queries issued.             *)
(***************************************************************************)
TrackOutcome(exc, records, queries) == [exc |-> exc, records |-> records, queries |-> queries]

add_track_to_data(item, type, discogs, mb, album) ==
    LET track_info == extract_track_info(item, type)
    IN  IF ~track_info.found THEN TrackOutcome("none", <<>>, <<>>)
        ELSE LET artist == IF track_info.artists # <<>> THEN track_info.artists[1] ELSE "None"
                 title == track_info.name
                 discogs_data == fetch_discogs_data(artist, title, discogs)
             IN  IF discogs_data.exc # "none"
                     THEN TrackOutcome(discogs_data.exc, <<>>, discogs_data.queries)
                 ELSE IF ~discogs_data.found
                     THEN TrackOutcome("none", <<>>, discogs_data.queries)
                 ELSE LET year == extract_year_from_discogs_data(
                                      discogs_data.data, artist, title, item, mb, album)
                      IN  IF year.exc # "none"
                              THEN TrackOutcome(year.exc, <<>>, discogs_data.queries \o year.queries)
                          ELSE TrackOutcome("none",
                                   << [Artist |-> artist, Title |-> title, Year |-> year.val,
                                       URL |-> track_info.url,
                                       QR |-> generate_qr_code(track_info.url)] >>,
                                   discogs_data.queries \o year.queries)

(***************************************************************************)
(* What the outside world can answer.                                      *)
(***************************************************************************)
Urls == { <<"", "album", "id">>, <<"", "playlist", "id">>,
          <<"", "track", "id">>, <<"", "playlist">> }

TitlePlain == <<"a", "b">>
TitleNoisy == <<"a", "b", " ", "(", "c", ")", " ", "-", " ", "d">>
Titles == {TitlePlain, TitleNoisy}

\* Track objects of a listing; id is the position of the item in the listing.
BrokenTrack(id) ==
    [id |-> id, ok |-> FALSE, name |-> <<>>, artists |-> <<>>, hasAlbum |-> FALSE, url |-> id]
\* A playlist item carries a full track object, which names its album; the
\* track objects of an album listing may or may not.
ArtistLists == {<<>>, <<"A", "B">>}
Tracks(type, id, titles, artistLists) ==
    {BrokenTrack(id)} \cup
    {[id |-> id, ok |-> TRUE, name |-> n, artists |-> a, hasAlbum |-> h, url |-> id] :
        n \in titles, a \in artistLists,
        h \in IF type = "playlist" THEN {TRUE} ELSE BOOLEAN}

Item(type, track) == [wrapped |-> type = "playlist", track |-> track]
PageItems(type, got, n, titles, artistLists) ==
    {its \in [1..n -> {Item(type, t) :
                          t \in UNION {Tracks(type, got + k, titles, artistLists) : k \in 1..n}}] :
        \A k \in 1..n : its[k].track.id = got + k}

\* The pages the listing source can deliver after `got` items.  Only the first
\* page can be empty, and a page announces a next one only if one can follow.
Pages(type, got, first) ==
    UNION { {[items |-> its, next |-> nx] :
                nx \in {b \in BOOLEAN : b => got + Len(its) < MaxTracks /\ Len(its) > 0}} :
            its \in UNION {PageItems(type, got, n, {TitleNoisy}, {<<"A", "B">>}) :
                              n \in {m \in 0..MaxPageLen :
                                        got + m <= MaxTracks /\ (first \/ m > 0)}} }

Cand(y) == [hasYear |-> TRUE, year |-> <<y>>]
NoYearCand == [hasYear |-> FALSE, year |-> NA]
DiscogsYears == {1998, 2001, 2010}
Candidates == {NoYearCand} \cup {Cand(y) : y \in DiscogsYears}
DiscogsData(n) ==
    {NoData} \cup {[hasResults |-> TRUE, results |-> r] : r \in SeqsUpTo(Candidates, n)}
DiscogsOk(d) == [kind |-> "ok", data |-> d]
DiscogsFailures == {[kind |-> "neterr", data |-> NoData], [kind |-> "badjson", data |-> NoData]}

Release(date, credit) == [title |-> "r", hasDate |-> TRUE, date |-> date, credit |-> credit]
UndatedRelease(credit) == [title |-> "r", hasDate |-> FALSE, date |-> NA, credit |-> credit]
ReleaseDates == { <<1999, 6, 1>>, <<2005, 3, 1>>, <<2005, 3>>, <<2005>>, JunkText }
\* "N/A" stands for a release without 'artist-credit'.
Credits == {"A", "Various Artists", "N/A"}
Releases == {Release(d, c) : d \in ReleaseDates, c \in Credits}
                \cup {UndatedRelease(c) : c \in Credits}
Recording(rels) == [hasReleases |-> TRUE, releases |-> rels]
BareRecording == [hasReleases |-> FALSE, releases |-> <<>>]
MBOk(recs) == [kind |-> "ok", recordings |-> recs]
MBFailures == {[kind |-> k, recordings |-> <<>>] : k \in {"neterr", "badbody", "not200"}}
OtherRecordings == {Recording(<<Release(<<1987>>, "A")>>), BareRecording}
MBResponses(nrel, nrec) ==
    MBFailures \cup {MBOk(<<>>)} \cup
    {MBOk(<<first>> \o rest) :
        first \in {BareRecording} \cup {Recording(r) : r \in SeqsUpTo(Releases, nrel)},
        rest \in SeqsUpTo(OtherRecordings, nrec - 1)}

AlbumResponses ==
    { [kind |-> "error", hasDate |-> FALSE, release_date |-> NA],
      [kind |-> "ok", hasDate |-> FALSE, release_date |-> NA],
      [kind |-> "ok", hasDate |-> TRUE, release_date |-> <<1987, 5, 2>>],
      [kind |-> "ok", hasDate |-> TRUE, release_date |-> <<1987, 5>>],
      [kind |-> "ok", hasDate |-> TRUE, release_date |-> <<1987>>] }

\* The answers used when a whole listing is run.
RunDiscogs ==
    DiscogsFailures \cup
    {DiscogsOk(d) : d \in {NoData,
                           [hasResults |-> TRUE, results |-> <<>>],
                           [hasResults |-> TRUE, results |-> <<NoYearCand>>],
                           [hasResults |-> TRUE, results |-> <<Cand(2001), Cand(1998)>>]}}
RunMB ==
    { [kind |-> "neterr", recordings |-> <<>>],
      MBOk(<<>>),
      MBOk(<<BareRecording>>),
      MBOk(<<Recording(<<Release(<<2005, 3, 1>>, "A"),
                         Release(<<1999, 6, 1>>, "Various Artists")>>)>>) }

(***************************************************************************)
(* The run: main, create_data, add_tracks_to_data and                      *)
(* fetch_and_add_additional_tracks.                                        *)
(***************************************************************************)
NoPage == [items |-> <<>>, next |-> FALSE]
NoLast == [id |-> 0, exc |-> "none", appended |-> FALSE, year |-> NA, queries |-> <<>>,
           discogs |-> "none", artists |-> <<>>, name |-> <<>>, found |-> FALSE]
NoOutput == [exc |-> "none", val |-> NA, queries |-> <<>>]
\* The answers of the providers, where a specification fixes them beforehand.
Answers(discogs, mb, album) == [discogs |-> discogs, mb |-> mb, album |-> album]
NoInput == Answers([kind |-> "neterr", data |-> NoData], [kind |-> "neterr", recordings |-> <<>>],
                   [kind |-> "error", hasDate |-> FALSE, release_date |-> NA])

RunInit ==
    /\ pc = "start"
    /\ spotify_url \in Urls
    /\ spotify_type = "None"
    /\ results = NoPage
    /\ idx = 0
    /\ pageNo = 0
    /\ fetched = 0
    /\ data = <<>>
    /\ cards = <<>>
    /\ visited = <<>>
    /\ failed = {}
    /\ last = NoLast

Init ==
    /\ RunInit
    /\ inp = NoInput
    /\ out = NoOutput

\* create_data up to the first page: the URL is taken apart and fetch_tracks is
\* called.  An IndexError of extract_spotify_id_and_type reaches main's handler.
CreateData ==
    /\ pc = "start"
    /\ LET st == extract_spotify_id_and_type(spotify_url)
       IN  /\ spotify_type' = st.type
           /\ \/ /\ st.exc # "none"
                 /\ pc' = "aborted"
                 /\ UNCHANGED <<results, pageNo, fetched>>
              \/ /\ st.exc = "none" /\ st.type = "None"
                 /\ pc' = "created"
                 /\ UNCHANGED <<results, pageNo, fetched>>
              \/ \* fetch_tracks returns None: the API call raised
                 /\ st.exc = "none" /\ st.type # "None"
                 /\ pc' = "created"
                 /\ UNCHANGED <<results, pageNo, fetched>>
              \/ /\ st.exc = "none" /\ st.type # "None"
                 /\ \E page \in Pages(st.type, 0, TRUE) :
                        /\ results' = page
                        /\ fetched' = Len(page.items)
                 /\ pageNo' = 1
                 /\ pc' = "tracks"
    /\ UNCHANGED <<spotify_url, idx, data, cards, visited, failed, last, inp, out>>

\* A metadata source failed while the track was resolved.
SourceFailed(outcome, discogs, mb) ==
    \/ outcome.exc # "none"
    \/ outcome.queries # <<>> /\ discogs.kind # "ok"
    \/ /\ \E i \in 1..Len(outcome.queries) : outcome.queries[i].src = "musicbrainz"
       /\ mb.kind \in {"neterr", "badbody"}

\* One iteration of the loop of add_tracks_to_data: add_track_to_data on the
\* next item of the page.  An exception leaves the loop: inside
\* fetch_and_add_additional_tracks a SpotifyException is caught and ends the
\* pagination, any other one reaches main's handler.
AddTrackToData(discogsSet, mbSet, albumSet) ==
    /\ pc = "tracks"
    /\ idx < Len(results.items)
    /\ \E discogs \in discogsSet, mb \in mbSet, album \in albumSet :
        \E item \in {results.items[idx + 1]} :
        \E info \in {extract_track_info(item, spotify_type)} :
        \E outcome \in {add_track_to_data(item, spotify_type, discogs, mb, album)} :
            /\ data' = AppendRecord(data, outcome.records)
            /\ visited' = Append(visited, item.track.id)
            /\ failed' = IF SourceFailed(outcome, discogs, mb)
                            THEN failed \cup {item.track.id} ELSE failed
            /\ last' = [id |-> item.track.id, exc |-> outcome.exc,
                        appended |-> outcome.records # <<>>,
                        year |-> IF outcome.records # <<>> THEN outcome.records[1].Year ELSE NA,
                        queries |-> outcome.queries,
                        discogs |-> IF outcome.queries # <<>> THEN discogs.kind ELSE "none",
                        artists |-> info.artists, name |-> info.name, found |-> info.found]
            /\ idx' = idx + 1
            /\ pc' = IF outcome.exc = "none" THEN "tracks"
                     ELSE IF pageNo > 1 /\ outcome.exc = "SpotifyException" THEN "created"
                     ELSE "aborted"
    /\ UNCHANGED <<spotify_url, spotify_type, results, pageNo, fetched, cards, inp, out>>

\* while results['next']: spotify.next(results) delivers the next page, or
\* raises a SpotifyException, which ends the pagination.
FetchNext ==
    /\ pc = "tracks"
    /\ idx = Len(results.items)
    /\ results.next
    /\ \/ /\ \E page \in Pages(spotify_type, fetched, FALSE) :
                /\ results' = page
                /\ fetched' = fetched + Len(page.items)
          /\ idx' = 0
          /\ pageNo' = pageNo + 1
          /\ pc' = "tracks"
       \/ /\ pc' = "created"
          /\ UNCHANGED <<results, fetched, idx, pageNo>>
    /\ UNCHANGED <<spotify_url, spotify_type, data, cards, visited, failed, last, inp, out>>

\* The listing is exhausted: create_data returns.
ListingDone ==
    /\ pc = "tracks"
    /\ idx = Len(results.items)
    /\ ~results.next
    /\ pc' = "created"
    /\ UNCHANGED <<spotify_url, spotify_type, results, idx, pageNo, fetched, data, cards,
                   visited, failed, last, inp, out>>

\* main after create_data: the records become a DataFrame and one card is
\* made of each row, in order.
RenderCards ==
    /\ pc = "created"
    /\ cards' = data
    /\ pc' = "done"
    /\ UNCHANGED <<spotify_url, spotify_type, results, idx, pageNo, fetched, data,
                   visited, failed, last, inp, out>>

Next ==
    \/ CreateData
    \/ AddTrackToData(RunDiscogs, RunMB, AlbumResponses)
    \/ FetchNext
    \/ ListingDone
    \/ RenderCards

Spec == Init /\ [][Next]_vars

(***************************************************************************)
(* One track: a listing of one page with one item, and the providers'      *)
(* answers fixed beforehand in inp, so that a state shows both the answers *)
(* and what add_track_to_data made of them.                                *)
(***************************************************************************)
TrackMB ==
    RunMB \cup
    { [kind |-> "badbody", recordings |-> <<>>],
      MBOk(<<Recording(<<>>)>>),
      MBOk(<<Recording(<<Release(<<2005, 3>>, "N/A"), Release(JunkText, "A")>>)>>),
      MBOk(<<Recording(<<UndatedRelease("A"), Release(<<2005>>, "A")>>)>>) }

TrackInit ==
    /\ pc = "tracks"
    /\ spotify_url \in {u \in Urls : extract_spotify_id_and_type(u).type # "None"}
    /\ spotify_type = extract_spotify_id_and_type(spotify_url).type
    /\ results \in {[items |-> its, next |-> FALSE] :
                        its \in PageItems(spotify_type, 0, 1, Titles, ArtistLists)}
    /\ idx = 0
    /\ pageNo = 1
    /\ fetched = 1
    /\ data = <<>>
    /\ cards = <<>>
    /\ visited = <<>>
    /\ failed = {}
    /\ last = NoLast
    /\ inp \in {Answers(d, m, a) :
                    d \in DiscogsFailures \cup {DiscogsOk(x) : x \in DiscogsData(MaxCands)},
                    m \in TrackMB, a \in AlbumResponses}
    /\ out = NoOutput

TrackNext ==
    \/ AddTrackToData({inp.discogs}, {inp.mb}, {inp.album})
    \/ ListingDone
    \/ RenderCards

SpecTrack == TrackInit /\ [][TrackNext]_vars

(***************************************************************************)
(* get_release_year_musicbrainz alone, on every answer of MusicBrainz      *)
(* within the bounds.                                                      *)
(***************************************************************************)
MBInit ==
    /\ pc = "call"
    /\ spotify_url = <<>>
    /\ spotify_type = "None"
    /\ results = NoPage
    /\ idx = 0
    /\ pageNo = 0
    /\ fetched = 0
    /\ data = <<>>
    /\ cards = <<>>
    /\ visited = <<>>
    /\ failed = {}
    /\ last = NoLast
    /\ inp \in {Answers(DiscogsOk(NoData), m, NoInput.album) :
                    m \in MBResponses(MaxReleases, MaxRecordings)}
    /\ out = NoOutput

CallMusicBrainz ==
    /\ pc = "call"
    /\ \E title \in Titles :
          out' = get_release_year_musicbrainz("A", title, inp.mb)
    /\ pc' = "returned"
    /\ UNCHANGED <<spotify_url, spotify_type, results, idx, pageNo, fetched, data, cards,
                   visited, failed, last, inp>>

MBNext == CallMusicBrainz

SpecMB == MBInit /\ [][MBNext]_vars

(***************************************************************************)
(* clean_song_title alone: it is called on a title, and once more on what  *)
(* it returned.  The titles are all texts of up to MaxTitleLen characters  *)
(* over letters, blanks, line breaks, the three kinds of brackets and the  *)
(* hyphen, and some longer ones.                                           *)
(***************************************************************************)
TitleChars == {"a", " ", NL, "(", ")", "[", "]", "{", "}", "-"}

\* "Song Title (Remastered 2009) - Radio Edit"
ExampleTitle ==
    << "S", "o", "n", "g", " ", "T", "i", "t", "l", "e", " ", "(", "R", "e",
       "m", "a", "s", "t", "e", "r", "e", "d", " ", "2", "0", "0", "9", ")",
       " ", "-", " ", "R", "a", "d", "i", "o", " ", "E", "d", "i", "t" >>

TitleInputs == SeqsUpTo(TitleChars, MaxTitleLen) \cup {ExampleTitle, TitlePlain, TitleNoisy}

TitleInit ==
    /\ pc = "call"
    /\ spotify_url = <<>>
    /\ spotify_type = "None"
    /\ results = NoPage
    /\ idx = 0
    /\ pageNo = 0
    /\ fetched = 0
    /\ data = <<>>
    /\ cards = <<>>
    /\ visited = <<>>
    /\ failed = {}
    /\ last = NoLast
    /\ inp \in {[title |-> t] : t \in TitleInputs}
    /\ out = [once |-> <<>>, twice |-> <<>>]

CleanTitle ==
    /\ pc = "call"
    /\ out' = [out EXCEPT !.once = clean_song_title(inp.title)]
    /\ pc' = "cleaned"
    /\ UNCHANGED <<spotify_url, spotify_type, results, idx, pageNo, fetched, data, cards,
                   visited, failed, last, inp>>

CleanAgain ==
    /\ pc = "cleaned"
    /\ out' = [out EXCEPT !.twice = clean_song_title(out.once)]
    /\ pc' = "recleaned"
    /\ UNCHANGED <<spotify_url, spotify_type, results, idx, pageNo, fetched, data, cards,
                   visited, failed, last, inp>>

TitleNext == CleanTitle \/ CleanAgain

SpecTitle == TitleInit /\ [][TitleNext]_vars

(***************************************************************************)
(* Observations shared by the properties.                                  *)
(***************************************************************************)
\* add_track_to_data has run and called extract_year_from_discogs_data.
ResolverReached == last.id # 0 /\ last.found /\ last.discogs = "ok"
Queried(src) == \E i \in 1..Len(last.queries) : last.queries[i].src = src
Terminated == pc \in {"done", "aborted"}
YearsOf(cands) == {cands[i].year[1] : i \in {j \in 1..Len(cands) : cands[j].hasYear}}

\* C1: a failure while one track is resolved never aborts the run: every
\* item the listing delivered is still handed to enrichment and the records
\* collected reach card rendering.
C1_TrackFailureNeverAborts ==
    (Terminated /\ failed # {}) =>
        /\ pc = "done"
        /\ Len(visited) = fetched
        /\ cards = data

\* C2: the Resolver never raises: whatever the sources answer, a track that
\* reaches it gets a year or "N/A".
C2_ResolverNeverRaises ==
    ResolverReached =>
        /\ last.exc = "none"
        /\ last.appended
        /\ (IsYearText(last.year) \/ last.year = NA)

\* C3: when Discogs has no candidate with a year and MusicBrainz yields no
\* date, the Spotify album of the item is asked and its release year is the
\* result; "N/A" only if the album has no usable date.
C3_FallsThroughToAlbumDate ==
    ( /\ ResolverReached
      /\ YearsOf(inp.discogs.data.results) = {}
      /\ get_release_year_musicbrainz("A", last.name, inp.mb).exc = "none"
      /\ get_release_year_musicbrainz("A", last.name, inp.mb).val = NA
      /\ ItemHasAlbum(results.items[1]) )
    =>  /\ Queried("spotify_album")
        /\ (inp.album.kind = "ok" /\ inp.album.hasDate)
              => (last.exc = "none" /\ last.year = <<inp.album.release_date[1]>>)
        /\ ~(inp.album.kind = "ok" /\ inp.album.hasDate)
              => (last.exc = "none" /\ last.year = NA)

\* C4: a failed Discogs fetch (network or parse) is treated as "no
\* candidates": MusicBrainz is asked next and the track still gets a record.
C4_DiscogsFailureContinues ==
    (last.id # 0 /\ last.found /\ last.discogs \in {"neterr", "badjson"}) =>
        /\ last.exc = "none"
        /\ Queried("musicbrainz")
        /\ last.appended

\* C5: if a Discogs candidate carries a year, the result is the smallest
\* year among the candidates that carry one, and neither MusicBrainz nor the
\* Spotify album is asked.
C5_EarliestDiscogsYearWins ==
    (ResolverReached /\ YearsOf(inp.discogs.data.results) # {}) =>
        /\ last.exc = "none"
        /\ last.appended
        /\ Len(last.year) = 1
        /\ last.year[1] \in YearsOf(inp.discogs.data.results)
        /\ \A y \in YearsOf(inp.discogs.data.results) : last.year[1] <= y
        /\ ~Queried("musicbrainz")
        /\ ~Queried("spotify_album")

C5_Witness ==
    /\ ResolverReached
    /\ inp.discogs.data.results = <<Cand(2001), Cand(1998), Cand(2010)>>
    /\ last.year = <<1998>>
    /\ data # <<>>

\* The releases of the first recording that survive the filters of C6, and
\* the order of two dates, a missing month or day counting as the first.
FirstReleases == inp.mb.recordings[1].releases
IsDateText(t) ==
    /\ Len(t) \in 1..3
    /\ t[1] >= 1 /\ t[1] < 10000
    /\ Len(t) >= 2 => t[2] \in 1..12
    /\ Len(t) = 3 => t[3] \in 1..DaysIn(t[1], t[2])
Survivors ==
    {i \in 1..Len(FirstReleases) :
        /\ FirstReleases[i].hasDate
        /\ IsDateText(FirstReleases[i].date)
        /\ FirstReleases[i].credit # "Various Artists"}
Padded(t) == <<t[1], IF Len(t) >= 2 THEN t[2] ELSE 1, IF Len(t) = 3 THEN t[3] ELSE 1>>
NotLater(a, b) ==
    \/ Padded(a)[1] < Padded(b)[1]
    \/ Padded(a)[1] = Padded(b)[1] /\ Padded(a)[2] < Padded(b)[2]
    \/ Padded(a)[1] = Padded(b)[1] /\ Padded(a)[2] = Padded(b)[2] /\ Padded(a)[3] <= Padded(b)[3]

IsListingSubsequence(recs) ==
    /\ \A i \in 1..Len(recs) : \E k \in 1..Len(visited) : visited[k] = recs[i].URL
    /\ \A i, j \in 1..Len(recs) : i < j => recs[i].URL < recs[j].URL

C7_RecordsKeepListingOrder ==
    /\ IsListingSubsequence(data)
    /\ IsListingSubsequence(cards)
    /\ \A k \in 1..Len(visited) : visited[k] = k

C7_Witness ==
    /\ pc = "done"
    /\ pageNo = 2
    /\ Len(visited) = 3
    /\ Len(cards) = 2
    /\ cards[1].URL = 1
    /\ cards[2].URL = 3
    /\ cards[1].Year = <<2005>>
    /\ cards[2].Year = <<1998>>

\* C8: a track without artist is not resolved: no metadata source is asked
\* for it.
C8_NoArtistNoQuery ==
    (last.id # 0 /\ last.found /\ last.artists = <<>>) => last.queries = <<>>

\* C9: every provider query that takes a title carries the normalized title,
\* and the record keeps the title as the listing gave it.
C9_QueriesCarryNormalizedTitle ==
    (last.id # 0 /\ last.found) =>
        /\ \A i \in 1..Len(last.queries) :
               last.queries[i].src \in {"discogs", "musicbrainz"}
                   => last.queries[i].title = clean_song_title(last.name)
        /\ last.appended => data[Len(data)].Title = last.name

\* C10: the Year of every record is a four-digit year or "N/A", whichever
\* stage it came from.
C10_YearIsYearOrNA ==
    /\ \A i \in 1..Len(data) : IsYearText(data[i].Year) \/ data[i].Year = NA
    /\ \A i \in 1..Len(cards) : IsYearText(cards[i].Year) \/ cards[i].Year = NA

\* A full date from MusicBrainz, cut to the year, on a card.
C10_Witness ==
    /\ pc = "done"
    /\ Len(cards) = 1
    /\ Queried("musicbrainz")
    /\ ~Queried("spotify_album")
    /\ inp.mb = MBOk(<<Recording(<<Release(<<2005, 3, 1>>, "A"),
                                   Release(<<1999, 6, 1>>, "Various Artists")>>)>>)
    /\ cards[1].Year = <<2005>>

\* C11: clean_song_title is idempotent: cleaning a cleaned title changes
\* nothing.
C11_CleanIsIdempotent ==
    pc = "recleaned" => out.twice = out.once

\* An opening delimiter with its closing delimiter somewhere after it.
HasEnclosedRun(s, open, close) ==
    \E i \in 1..Len(s) : \E j \in (i + 1)..Len(s) : s[i] = open /\ s[j] = close

HasHyphen(s) == \E i \in 1..Len(s) : s[i] = "-"

Brackets == {"(", ")", "[", "]", "{", "}"}

\* C12: clean_song_title leaves no run enclosed in parentheses, square
\* brackets or curly braces, removes the parentheses first, then the square
\* brackets, then the curly braces, cuts a title without brackets at its first
\* hyphen, trims the result, gives back a title with no enclosed run and no
\* hyphen unchanged but for the trimming, and turns
\* "Song Title (Remastered 2009) - Radio Edit" into "Song Title".
C12_CleanRemovesRunsAndSuffix ==
    pc # "call" =>
        /\ ~HasEnclosedRun(out.once, "(", ")")
        /\ ~HasEnclosedRun(out.once, "[", "]")
        /\ ~HasEnclosedRun(out.once, "{", "}")
        /\ inp.title = <<"[", "(", "]", ")">> => out.once = <<"[">>
        /\ inp.title = <<"{", "[", "}", "]">> => out.once = <<"{">>
        /\ \A q \in 1..Len(inp.title) :
               (/\ inp.title[q] = "-"
                /\ \A i \in 1..Len(inp.title) : inp.title[i] \notin Brackets
                /\ \A i \in 1..(q - 1) : inp.title[i] # "-")
                   => out.once = Strip(SubSeq(inp.title, 1, q - 1))
        /\ out.once = Strip(out.once)
        /\ (/\ ~HasEnclosedRun(inp.title, "(", ")")
            /\ ~HasEnclosedRun(inp.title, "[", "]")
            /\ ~HasEnclosedRun(inp.title, "{", "}")
            /\ ~HasHyphen(inp.title)) => out.once = Strip(inp.title)
        /\ inp.title = ExampleTitle
               => out.once = <<"S", "o", "n", "g", " ", "T", "i", "t", "l", "e">>

\* create_data has returned or was left by an exception after a first page
\* had been fetched.
ListingEnded == pc \in {"created", "done", "aborted"} /\ pageNo > 0

\* spotify.next raised: the loop was left with a page still announced and
\* every item of the pages at hand enriched without an exception.
NextPageFailed ==
    /\ pc \in {"created", "done"}
    /\ results.next
    /\ idx = Len(results.items)
    /\ last.exc = "none"

\* C13: the items of the fetched pages are handed to enrichment one by one in
\* listing order, none twice; and when the page fetches succeeded, the run
\* has ended only after a page announced no next one and every item of every
\* fetched page was handed to enrichment.
C13_PaginationHandsEveryItemOnce ==
    /\ visited = [k \in 1..Len(visited) |-> k]
    /\ pageNo > 0 => Len(visited) = fetched - Len(results.items) + idx
    /\ (ListingEnded /\ ~NextPageFailed) =>
           /\ ~results.next
           /\ idx = Len(results.items)
           /\ visited = [k \in 1..fetched |-> k]

====
